---------------------------- MODULE Spec2Model ----------------------------
(***************************************************************************)
(* Model of the two markdown fix-up scripts                                *)
(*   scripts/fix_divs_and_blockquotes_sql.py   (the "fix" script)          *)
(*   scripts/normalize_bold_sql.py             (the "bold" script)         *)
(*                                                                         *)
(* A text is a sequence of atoms; an atom is a short literal string that   *)
(* the scripts' regular expressions can only match as a whole (the fence   *)
(* delimiter of three backticks, "**", ">", a keyword, a tag, a blank, a   *)
(* line break).  A line is a text without the line break atom.             *)
(* The regular expressions are modelled by what they match on such         *)
(* sequences.                                                              *)
(***************************************************************************)
EXTENDS Integers, Sequences, FiniteSets, TLC

VARIABLES
    script,      \* which program is running: "fix" or "bold"
    pc,          \* position of the running program
    lines,       \* text.splitlines() of the text being scanned
    i,           \* scan index into lines (1-based; the code's i + 1)
    out,         \* out / out_lines: the lines emitted so far
    in_fence,    \* bold script: inside a pre-existing fenced block
    changed,     \* bold script: a conversion happened
    text,        \* the text a pure transform is applied to / has produced
    orig,        \* the text as read
    src,         \* the lesson directory: the text of each .md file
    bak,         \* the backup file beside each .md file
    queue,       \* main: the sorted files still to be processed
    cur,         \* main: the file being processed
    any_changed, \* main: changed / any_changed
    printed,     \* the lines printed by this invocation
    io,          \* the file operations of this invocation, in order
    runs,        \* the number of invocations so far
    atStart      \* the directory as it was when this invocation started

fsVars == <<src, bak, queue, cur, any_changed, printed, io, runs, atStart>>

vars == <<script, pc, lines, i, out, in_fence, changed, text, orig, fsVars>>

----------------------------------------------------------------------------
(* Atoms *)

SP == " "
NL == "\n"
GT == ">"
BOLD == "**"
\* the fence delimiter, three backticks (a backtick cannot be written in a
\* string of this language, so the atom is spelled out)
BT == "BACKTICKS3"
SQLTAG == "sql"
DIV_TA == "<div style=text-align:center>"
DIV_PLAIN == "<div>"
DIV_CLOSE == "</div>"
BACKSLASH == "\\"

\* atoms made of word characters only (\w), for the \b of SQL_KEYWORDS
WordAtoms == {"sql", "SELECT", "SUM", "1", "a"}

\* the whitespace class \s
IsSpace(c) == c \in {SP, NL}

\* SQL_KEYWORDS of the fix script, restricted to the atoms
FixKeywords == {"SELECT", "SUM"}
\* SQL_KEYWORDS of the bold script (no aggregate names)
BoldKeywords == {"SELECT"}
\* atoms holding a character of [,();=*<>]
BoldPunct == {GT, BOLD, ";", DIV_TA, DIV_PLAIN, DIV_CLOSE}
\* atoms holding a character of [,();=*<>\\]
FixPunct == BoldPunct \cup {BACKSLASH}

None == <<>>
Some(x) == <<x>>

\* the header and terminator lines of an emitted block
FenceSql == <<BT, SQLTAG>>
FenceEnd == <<BT>>

----------------------------------------------------------------------------
(* Regular-expression helpers *)

RECURSIVE SkipSpace(_, _)
\* \s* from position k: the first position at or after k that holds no blank
SkipSpace(s, k) ==
    IF k <= Len(s) /\ IsSpace(s[k]) THEN SkipSpace(s, k + 1) ELSE k

\* \b(KEYWORD)\b: a keyword atom with no word atom glued to either side
HasKeyword(inner, kws) ==
    \E k \in 1..Len(inner) :
        /\ inner[k] \in kws
        /\ (k = 1 \/ inner[k - 1] \notin WordAtoms)
        /\ (k = Len(inner) \/ inner[k + 1] \notin WordAtoms)

HasPunct(inner, ps) == \E k \in 1..Len(inner) : inner[k] \in ps

----------------------------------------------------------------------------
(* fix script: the quoted-line classifier *)

\* None, Some(<<>>) for a blank quoted line, Some(inner) for an SQL candidate
is_blockquote_sql_line(s) ==
    LET p == SkipSpace(s, 1) IN
    IF p > Len(s) \/ s[p] # GT THEN None
    ELSE LET q == SkipSpace(s, p + 1)
             inner == SubSeq(s, q, Len(s))
         IN  IF inner = <<>> THEN Some(<<>>)
             ELSE IF HasKeyword(inner, FixKeywords) \/ HasPunct(inner, FixPunct)
                  THEN Some(inner)
                  ELSE None

RECURSIVE CollectQuoted(_, _)
\* the inner while loop: the first index at or after j whose line is not classified
CollectQuoted(ls, j) ==
    IF j <= Len(ls) /\ is_blockquote_sql_line(ls[j]) # None
    THEN CollectQuoted(ls, j + 1)
    ELSE j

\* sql_lines as collected for the run ls[a .. j-1]
SqlLinesOf(ls, a, j) == [k \in 1..(j - a) |-> is_blockquote_sql_line(ls[a + k - 1])[1]]

SawNonempty(sql_lines) == \E k \in 1..Len(sql_lines) : sql_lines[k] # <<>>

RECURSIVE PopLeading(_)
PopLeading(s) == IF s # <<>> /\ Head(s) = <<>> THEN PopLeading(Tail(s)) ELSE s

RECURSIVE PopTrailing(_)
PopTrailing(s) ==
    IF s # <<>> /\ s[Len(s)] = <<>> THEN PopTrailing(SubSeq(s, 1, Len(s) - 1)) ELSE s

\* TrimBlank without the second loop
TrimLeadingOnly(sql_lines) == PopLeading(sql_lines)

\* trim leading/trailing empty strings
TrimBlank(sql_lines) == PopTrailing(PopLeading(sql_lines))

\* QuotedEmit with the collected inner texts emitted for a blank-only run
QuotedEmitInner(ls, k) ==
    LET j == CollectQuoted(ls, k)
        sql_lines == SqlLinesOf(ls, k, j)
    IN  IF SawNonempty(sql_lines)
        THEN <<FenceSql>> \o PopTrailing(PopLeading(sql_lines)) \o <<FenceEnd>>
        ELSE sql_lines

\* the lines one iteration of the outer loop appends when lines[k] is classified
QuotedEmit(ls, k) ==
    LET j == CollectQuoted(ls, k)
        sql_lines == SqlLinesOf(ls, k, j)
    IN  IF SawNonempty(sql_lines)
        THEN <<FenceSql>> \o TrimBlank(sql_lines) \o <<FenceEnd>>
        ELSE SubSeq(ls, k, j - 1)

\* one iteration of the outer while loop at line k: what it appends to out
\* and the index it leaves in i
QuoteStep(ls, k) ==
    IF is_blockquote_sql_line(ls[k]) = None
    THEN [emit |-> <<ls[k]>>, next |-> k + 1]
    ELSE [emit |-> QuotedEmit(ls, k), next |-> CollectQuoted(ls, k)]

----------------------------------------------------------------------------
(* fix script: DIV_IN_CODE_RE and remove_div_code_blocks *)

RECURSIVE FindDivClose(_, _)
\* .*?</div>\s*<fence>: the first </div> at or after c that blanks and then a
\* fence delimiter follow; 0 when there is none
FindDivClose(t, c) ==
    IF c > Len(t) THEN 0
    ELSE IF t[c] = DIV_CLOSE
            /\ SkipSpace(t, c + 1) <= Len(t) /\ t[SkipSpace(t, c + 1)] = BT
         THEN c
         ELSE FindDivClose(t, c + 1)

\* DIV_IN_CODE_RE matched at position pos: group 1 is t[from .. to], the match
\* ends at position end
DivMatchAt(t, pos) ==
    LET d == SkipSpace(t, pos + 2)
        c == FindDivClose(t, d + 1)
    IN  IF /\ pos + 1 <= Len(t) /\ t[pos] = BT /\ t[pos + 1] = SQLTAG
           /\ d <= Len(t) /\ t[d] = DIV_TA
           /\ c # 0
        THEN [ok |-> TRUE, from |-> d, to |-> c, end |-> SkipSpace(t, c + 1)]
        ELSE [ok |-> FALSE, from |-> 0, to |-> 0, end |-> 0]

RECURSIVE DivSub(_, _)
\* DIV_IN_CODE_RE.sub(lambda m: m.group(1), text) from position pos on:
\* leftmost matches, none overlapping
DivSub(t, pos) ==
    IF pos > Len(t) THEN <<>>
    ELSE LET m == DivMatchAt(t, pos) IN
         IF m.ok THEN SubSeq(t, m.from, m.to) \o DivSub(t, m.end + 1)
         ELSE <<t[pos]>> \o DivSub(t, pos + 1)

remove_div_code_blocks(t) == DivSub(t, 1)

----------------------------------------------------------------------------
(* bold script: the fence test and the bold-line classifier *)

RECURSIVE SkipSpaceBack(_, _)
\* \s*$ seen from the end: the last position at or before k that holds no blank
SkipSpaceBack(s, k) ==
    IF k >= 1 /\ IsSpace(s[k]) THEN SkipSpaceBack(s, k - 1) ELSE k

\* re.match(r"^\s*<fence>", line)
IsFenceLine(line) ==
    LET p == SkipSpace(line, 1) IN p <= Len(line) /\ line[p] = BT

\* None, or Some(inner) for a line fully wrapped in ** that looks like SQL
is_bold_sql_line(line) ==
    LET p == SkipSpace(line, 1)
        b == IF p <= Len(line) /\ line[p] = GT THEN SkipSpace(line, p + 1) ELSE p
        e == SkipSpaceBack(line, Len(line))
    IN  IF ~(b < e /\ line[b] = BOLD /\ line[e] = BOLD) THEN None
        ELSE LET inner == SubSeq(line, b + 1, e - 1) IN
             IF \E k \in 1..Len(inner) : inner[k] \in {DIV_TA, DIV_PLAIN, DIV_CLOSE}
             THEN None
             ELSE IF HasKeyword(inner, BoldKeywords) \/ HasPunct(inner, BoldPunct)
                  THEN Some(inner)
                  ELSE None

\* CollectBold with the lookahead loop never entered
CollectBoldNoMerge(ls, j) == j

RECURSIVE CollectBold(_, _)
\* collect consecutive bold-SQL lines: the first index at or after j whose
\* line does not qualify
CollectBold(ls, j) ==
    IF j <= Len(ls) /\ is_bold_sql_line(ls[j]) # None
    THEN CollectBold(ls, j + 1)
    ELSE j

\* BoldStep with the in_fence test left out
BoldStepNoFence(ls, k, fence) ==
    IF IsFenceLine(ls[k])
    THEN [emit |-> <<ls[k]>>, next |-> k + 1, fence |-> ~fence, conv |-> FALSE]
    ELSE IF is_bold_sql_line(ls[k]) # None
    THEN LET j == CollectBold(ls, k + 1) IN
         [emit |-> <<FenceSql>>
                   \o [m \in 1..(j - k) |-> is_bold_sql_line(ls[k + m - 1])[1]]
                   \o <<FenceEnd>>,
          next |-> j, fence |-> fence, conv |-> TRUE]
    ELSE [emit |-> <<ls[k]>>, next |-> k + 1, fence |-> fence, conv |-> FALSE]

\* one iteration of the while loop of normalize_file at line k: what it
\* appends to out_lines, the index it leaves in i, in_fence, and whether it
\* set changed
BoldStep(ls, k, fence) ==
    IF IsFenceLine(ls[k])
    THEN [emit |-> <<ls[k]>>, next |-> k + 1, fence |-> ~fence, conv |-> FALSE]
    ELSE IF ~fence /\ is_bold_sql_line(ls[k]) # None
    THEN LET j == CollectBold(ls, k + 1) IN
         [emit |-> <<FenceSql>>
                   \o [m \in 1..(j - k) |-> is_bold_sql_line(ls[k + m - 1])[1]]
                   \o <<FenceEnd>>,
          next |-> j, fence |-> fence, conv |-> TRUE]
    ELSE [emit |-> <<ls[k]>>, next |-> k + 1, fence |-> fence, conv |-> FALSE]

----------------------------------------------------------------------------
(* The transforms as functions of the text of a file *)

RECURSIVE SplitFrom(_, _, _)
\* str.splitlines from position k on, acc being the line under way
SplitFrom(t, k, acc) ==
    IF k > Len(t) THEN (IF acc = <<>> THEN <<>> ELSE <<acc>>)
    ELSE IF t[k] = NL THEN <<acc>> \o SplitFrom(t, k + 1, <<>>)
    ELSE SplitFrom(t, k + 1, Append(acc, t[k]))

SplitLines(t) == SplitFrom(t, 1, <<>>)

RECURSIVE JoinLines(_)
\* "\n".join(ls)
JoinLines(ls) ==
    IF ls = <<>> THEN <<>>
    ELSE IF Len(ls) = 1 THEN ls[1]
    ELSE ls[1] \o <<NL>> \o JoinLines(Tail(ls))

RECURSIVE QuoteScan(_, _, _)
\* the outer while loop from index k on, o being out
QuoteScan(ls, k, o) ==
    IF k > Len(ls) THEN o
    ELSE QuoteScan(ls, QuoteStep(ls, k).next, o \o QuoteStep(ls, k).emit)

convert_blockquote_sequences(t) ==
    JoinLines(QuoteScan(SplitLines(t), 1, <<>>))
    \o (IF t # <<>> /\ t[Len(t)] = NL THEN <<NL>> ELSE <<>>)

\* fix script, normalize_file: the text computed from the text read
FixText(t) == convert_blockquote_sequences(remove_div_code_blocks(t))

RECURSIVE BoldScan(_, _, _, _, _)
\* the while loop of the bold script from index k on
BoldScan(ls, k, fence, o, ch) ==
    IF k > Len(ls) THEN [out_lines |-> o, changed |-> ch]
    ELSE LET st == BoldStep(ls, k, fence) IN
         BoldScan(ls, st.next, st.fence, o \o st.emit, ch \/ st.conv)

\* bold script, normalize_file: changed after the loop
BoldChanged(t) == BoldScan(SplitLines(t), 1, FALSE, <<>>, FALSE).changed

\* bold script, normalize_file: "\n".join(out_lines) + "\n"
BoldText(t) == JoinLines(BoldScan(SplitLines(t), 1, FALSE, <<>>, FALSE).out_lines) \o <<NL>>

----------------------------------------------------------------------------
(* Bounds and input lines *)

MaxLines == 4

QuoteLinePool ==
    { <<"a">>,                                \* prose
      <<GT>>,                                 \* blank quoted line
      <<GT, SP>>,                             \* blank quoted line, trailing blank
      <<GT, SP, "a">>,                        \* quoted prose
      <<GT, SP, "SELECT", SP, "1", ";">>,     \* quoted SQL
      <<SP, GT, "SUM">>,                      \* indented, keyword only
      <<GT, GT, BACKSLASH>> }                 \* nested marker

BoldLinePool ==
    { <<"a">>,                                    \* prose
      <<BT>>,                                     \* a fence line
      <<SP, BT, SQLTAG>>,                         \* an indented, tagged fence line
      <<BOLD, "SELECT", SP, "1", ";", BOLD>>,     \* **SELECT 1;**
      <<GT, SP, BOLD, "a", ";", BOLD, SP>>,       \* quoted, blank after the wrapper
      <<BOLD, "SUM", BOLD>>,                      \* bold, but no keyword of this script
      <<BOLD, DIV_PLAIN, "a", DIV_CLOSE, BOLD>> } \* a bold HTML header

MaxTextLen == 6

\* the atoms of the texts given to remove_div_code_blocks
DivAtoms == {BT, SQLTAG, DIV_TA, DIV_CLOSE, "a", NL}

\* the number of .md files in the lesson directory; their names are 1 .. NFiles
\* in lexicographic order
NFiles == 3

\* the number of invocations of a script
MaxRuns == 2

Files == 1..NFiles

\* file texts given to the fix script
FixTexts ==
    { <<"a", NL>>,                                             \* prose only
      <<GT, SP, "SELECT", SP, "1", ";", NL>>,                  \* a quoted statement
      <<GT, GT, ";", NL>>,                                     \* a nested quote
      <<BT, SQLTAG, NL, DIV_TA, "a", DIV_CLOSE, NL, BT, NL>> } \* a fenced header

\* file texts given to the bold script
BoldTexts ==
    { <<"a", NL>>,                                             \* prose only
      <<"a">>,                                                 \* no final line break
      <<BOLD, "SELECT", SP, "1", ";", BOLD, NL>>,              \* a bold statement
      <<BOLD, BT, "SELECT", BOLD, NL,
        BOLD, BOLD, ";", BOLD, BOLD, NL>> }                    \* inner texts with markup

SeqsUpTo(S, n) == UNION { [1..m -> S] : m \in 0..n }

\* the specifications of a single pass touch no file
NoDirectory ==
    /\ src = <<>> /\ bak = <<>> /\ queue = <<>> /\ cur = 0
    /\ any_changed = FALSE /\ printed = <<>> /\ io = <<>>
    /\ runs = 0 /\ atStart = <<>>

----------------------------------------------------------------------------
(* SpecQuote: convert_blockquote_sequences, one outer-loop iteration a step *)

QuoteInit ==
    /\ script = "fix"
    /\ pc = "scan"
    /\ lines \in SeqsUpTo(QuoteLinePool, MaxLines)
    /\ i = 1
    /\ out = <<>>
    /\ in_fence = FALSE
    /\ changed = FALSE
    /\ text = <<>>
    /\ orig = <<>>
    /\ NoDirectory

\* res is None: the line is copied
QuotePlain ==
    /\ pc = "scan" /\ i <= Len(lines)
    /\ is_blockquote_sql_line(lines[i]) = None
    /\ out' = out \o QuoteStep(lines, i).emit
    /\ i' = QuoteStep(lines, i).next
    /\ UNCHANGED <<script, pc, lines, in_fence, changed, text, orig, fsVars>>

\* a run with an SQL candidate: one fenced block
QuoteConvert ==
    /\ pc = "scan" /\ i <= Len(lines)
    /\ is_blockquote_sql_line(lines[i]) # None
    /\ SawNonempty(SqlLinesOf(lines, i, CollectQuoted(lines, i)))
    /\ out' = out \o QuoteStep(lines, i).emit
    /\ i' = QuoteStep(lines, i).next
    /\ UNCHANGED <<script, pc, lines, in_fence, changed, text, orig, fsVars>>

\* a run of blank quoted lines only: kept
QuoteKeep ==
    /\ pc = "scan" /\ i <= Len(lines)
    /\ is_blockquote_sql_line(lines[i]) # None
    /\ ~SawNonempty(SqlLinesOf(lines, i, CollectQuoted(lines, i)))
    /\ out' = out \o QuoteStep(lines, i).emit
    /\ i' = QuoteStep(lines, i).next
    /\ UNCHANGED <<script, pc, lines, in_fence, changed, text, orig, fsVars>>

QuoteDone ==
    /\ pc = "scan" /\ i > Len(lines)
    /\ pc' = "done"
    /\ UNCHANGED <<script, lines, i, out, in_fence, changed, text, orig, fsVars>>

QuoteNext == QuotePlain \/ QuoteConvert \/ QuoteKeep \/ QuoteDone

SpecQuote == QuoteInit /\ [][QuoteNext]_vars

----------------------------------------------------------------------------
(* Claims about the blockquote pass *)

Quoted(l) == is_blockquote_sql_line(l) # None
InnerText(l) == is_blockquote_sql_line(l)[1]

\* the maximal contiguous runs <<a, b>> of quoted-classified lines of the input
QuotedRuns ==
    { r \in (1..Len(lines)) \X (1..Len(lines)) :
        /\ r[1] <= r[2]
        /\ \A k \in r[1]..r[2] : Quoted(lines[k])
        /\ (r[1] = 1 \/ ~Quoted(lines[r[1] - 1]))
        /\ (r[2] = Len(lines) \/ ~Quoted(lines[r[2] + 1])) }

\* the non-blank SQL-candidate lines of a run
SqlIdx(r) == { k \in r[1]..r[2] : InnerText(lines[k]) # <<>> }
FirstSql(r) == CHOOSE k \in SqlIdx(r) : \A m \in SqlIdx(r) : k <= m
LastSql(r) == CHOOSE k \in SqlIdx(r) : \A m \in SqlIdx(r) : k >= m

ConvertibleRuns == { r \in QuotedRuns : SqlIdx(r) # {} }
BlankOnlyRuns == { r \in QuotedRuns : SqlIdx(r) = {} }

\* line holds a quote marker, blanks around it, and then exactly inner
MarkerStripped(line, inner) ==
    \E p \in 1..Len(line) : \E q \in (p + 1)..(Len(line) + 1) :
        /\ line[p] = GT
        /\ \A k \in 1..(p - 1) : line[k] = SP
        /\ \A k \in (p + 1)..(q - 1) : line[k] = SP
        /\ inner = SubSeq(line, q, Len(line))
        /\ (inner = <<>> \/ inner[1] # SP)

\* the fenced block a convertible run is to become
BlockOf(r) ==
    <<FenceSql>>
    \o [m \in 1..(LastSql(r) - FirstSql(r) + 1) |-> InnerText(lines[FirstSql(r) + m - 1])]
    \o <<FenceEnd>>

\* a leading or trailing blank line of a convertible run
Trimmed(m) ==
    \E r \in ConvertibleRuns :
        m \in r[1]..r[2] /\ (m < FirstSql(r) \/ m > LastSql(r))

\* the number of output lines that stand for the input lines before line k,
\* k not inside a run: a line each, two more per converted run, less the
\* trimmed blanks
OutPos(k) ==
    (k - 1) + 2 * Cardinality({ r \in ConvertibleRuns : r[2] < k })
            - Cardinality({ m \in 1..(k - 1) : Trimmed(m) })

\* C4: once the blockquote pass is over, every maximal run of
\* quoted-classified lines with at least one non-blank SQL candidate stands in
\* the output as exactly one fenced block: the sql header, the inner texts
\* (quote marker stripped) in order from the first to the last non-blank one,
\* interior blanks kept, then the terminator; the body is never empty and
\* neither starts nor ends with a blank entry.
C4_RunBecomesOneBlock ==
    pc = "done" =>
        /\ Len(out) = OutPos(Len(lines) + 1)
        /\ \A r \in ConvertibleRuns :
            LET blk == SubSeq(out, OutPos(r[1]) + 1, OutPos(r[2] + 1)) IN
            /\ blk = BlockOf(r)
            /\ Len(blk) >= 3
            /\ blk[2] # <<>> /\ blk[Len(blk) - 1] # <<>>
            /\ \A k \in r[1]..r[2] : MarkerStripped(lines[k], InnerText(lines[k]))

\* a finished pass over a run with a leading blank and an interior blank
C4_Witness ==
    /\ pc = "done"
    /\ \E r \in ConvertibleRuns :
        /\ r[1] < FirstSql(r)
        /\ \E k \in FirstSql(r)..LastSql(r) : InnerText(lines[k]) = <<>>

\* C5: a step of the pass that starts on a line of a blank-only maximal run
\* starts at the first line of that run, appends the run's original lines
\* unchanged and in order (so no fence header or terminator), and resumes at
\* the first line after the run.
C5_BlankRunKept ==
    [][ \A r \in BlankOnlyRuns :
          (pc = "scan" /\ r[1] <= i /\ i <= r[2]) =>
              /\ i = r[1]
              /\ out' = out \o SubSeq(lines, r[1], r[2])
              /\ i' = r[2] + 1 ]_vars

\* a finished pass that kept a blank-only run of two differently written lines
C5_Witness ==
    /\ pc = "done"
    /\ \E r \in BlankOnlyRuns :
        /\ lines[r[1]] # lines[r[2]]
        /\ SubSeq(out, OutPos(r[1]) + 1, OutPos(r[2] + 1)) = SubSeq(lines, r[1], r[2])

----------------------------------------------------------------------------
(* SpecBold: the scan of the bold script's normalize_file, one loop iteration
   a step *)

BoldInit ==
    /\ script = "bold"
    /\ pc = "scan"
    /\ lines \in SeqsUpTo(BoldLinePool, MaxLines)
    /\ i = 1
    /\ out = <<>>
    /\ in_fence = FALSE
    /\ changed = FALSE
    /\ text = <<>>
    /\ orig = <<>>
    /\ NoDirectory

BoldApply ==
    LET st == BoldStep(lines, i, in_fence) IN
    /\ out' = out \o st.emit
    /\ i' = st.next
    /\ in_fence' = st.fence
    /\ changed' = (changed \/ st.conv)
    /\ UNCHANGED <<script, pc, lines, text, orig, fsVars>>

\* a line that starts a fence or ends one
BoldFence ==
    /\ pc = "scan" /\ i <= Len(lines)
    /\ IsFenceLine(lines[i])
    /\ BoldApply

\* a bold-SQL line outside a fence: it and its followers become one block
BoldConvert ==
    /\ pc = "scan" /\ i <= Len(lines)
    /\ ~IsFenceLine(lines[i])
    /\ BoldStep(lines, i, in_fence).conv
    /\ BoldApply

\* any other line is copied
BoldCopy ==
    /\ pc = "scan" /\ i <= Len(lines)
    /\ ~IsFenceLine(lines[i])
    /\ ~BoldStep(lines, i, in_fence).conv
    /\ BoldApply

BoldDone ==
    /\ pc = "scan" /\ i > Len(lines)
    /\ pc' = "done"
    /\ UNCHANGED <<script, lines, i, out, in_fence, changed, text, orig, fsVars>>

BoldNext == BoldFence \/ BoldConvert \/ BoldCopy \/ BoldDone

SpecBold == BoldInit /\ [][BoldNext]_vars

----------------------------------------------------------------------------
(* Claims about the bold pass *)

\* the line begins with the fence delimiter, indentation aside
BeginsWithFence(l) ==
    \E p \in 1..Len(l) : l[p] = BT /\ \A k \in 1..(p - 1) : l[k] = SP

\* an odd number of fence lines precede input line k
OpenFence(k) ==
    Cardinality({ m \in 1..(k - 1) : BeginsWithFence(lines[m]) }) % 2 = 1

\* C3: at every point of the scan the in-fence flag is the parity of the
\* fence lines passed (so it is toggled on every line beginning with the fence
\* delimiter and on no other line), and a step that starts on a line inside
\* an open fenced block copies that one line to the output unchanged,
\* whatever the line looks like.
C3_FencedLinesUntouched ==
    [][ (pc = "scan" /\ i <= Len(lines)) =>
          /\ in_fence = OpenFence(i)
          /\ in_fence' = OpenFence(i')
          /\ (in_fence' # in_fence) = BeginsWithFence(lines[i])
          /\ OpenFence(i) => (out' = Append(out, lines[i]) /\ i' = i + 1) ]_vars

\* a finished scan that passed a bold-SQL line inside an open fence
C3_Witness ==
    /\ pc = "done"
    /\ \E k \in 1..Len(lines) :
        /\ OpenFence(k)
        /\ is_bold_sql_line(lines[k]) # None
        /\ \E m \in 1..Len(out) : out[m] = lines[k]

Qualifies(k) == is_bold_sql_line(lines[k]) # None /\ ~OpenFence(k)

\* the maximal runs <<a, b>> of qualifying lines outside a fenced block
BoldRuns ==
    { r \in (1..Len(lines)) \X (1..Len(lines)) :
        /\ r[1] <= r[2]
        /\ \A k \in r[1]..r[2] : Qualifies(k)
        /\ (r[1] = 1 \/ ~Qualifies(r[1] - 1))
        /\ (r[2] = Len(lines) \/ ~Qualifies(r[2] + 1)) }

\* line is inner between two ** wrappers, after at most a quote marker, with
\* blanks around
WrapStripped(line, inner) ==
    \E b \in 1..Len(line) : \E e \in (b + 1)..Len(line) :
        /\ line[b] = BOLD /\ line[e] = BOLD
        /\ inner = SubSeq(line, b + 1, e - 1)
        /\ \A k \in (e + 1)..Len(line) : line[k] = SP
        /\ \A k \in 1..(b - 1) : line[k] \in {SP, GT}
        /\ Cardinality({ k \in 1..(b - 1) : line[k] = GT }) <= 1

\* the number of output lines that stand for the input lines before line k
BoldOutPos(k) == (k - 1) + 2 * Cardinality({ r \in BoldRuns : r[2] < k })

\* C6: once the bold pass is over, every maximal run of qualifying
\* bold-wrapped lines outside a fenced block stands in the output as exactly
\* one fenced block: the sql header, the inner texts in order with the **
\* wrappers and a leading quote marker removed, the terminator; a file whose
\* only line is **SELECT 1;** becomes the three lines header, SELECT 1;,
\* terminator.
C6_BoldRunBecomesOneBlock ==
    pc = "done" =>
        /\ Len(out) = BoldOutPos(Len(lines) + 1)
        /\ changed = (BoldRuns # {})
        /\ \A r \in BoldRuns :
            LET blk == SubSeq(out, BoldOutPos(r[1]) + 1, BoldOutPos(r[2] + 1)) IN
            /\ Len(blk) = r[2] - r[1] + 3
            /\ blk[1] = FenceSql /\ blk[Len(blk)] = FenceEnd
            /\ \A m \in 1..(r[2] - r[1] + 1) : WrapStripped(lines[r[1] + m - 1], blk[m + 1])
        /\ lines = << <<BOLD, "SELECT", SP, "1", ";", BOLD>> >>
             => out = << FenceSql, <<"SELECT", SP, "1", ";">>, FenceEnd >>

\* a finished pass that merged a run of two lines, one of them quoted
C6_Witness ==
    /\ pc = "done"
    /\ \E r \in BoldRuns :
        r[2] > r[1] /\ \E k \in r[1]..r[2] : lines[k][1] = GT

----------------------------------------------------------------------------
(* SpecDiv: remove_div_code_blocks applied to a text *)

DivInit ==
    /\ script = "fix"
    /\ pc = "call"
    /\ text \in SeqsUpTo(DivAtoms, MaxTextLen)
    /\ orig = text
    /\ lines = <<>>
    /\ i = 1
    /\ out = <<>>
    /\ in_fence = FALSE
    /\ changed = FALSE
    /\ NoDirectory

RemoveDivCodeBlocks ==
    /\ pc = "call"
    /\ text' = remove_div_code_blocks(text)
    /\ pc' = "ret"
    /\ UNCHANGED <<script, lines, i, out, in_fence, changed, orig, fsVars>>

DivNext == RemoveDivCodeBlocks

SpecDiv == DivInit /\ [][DivNext]_vars

\* t[s .. e] is a fenced block tagged sql whose only content is one div with
\* a text-align style: t[d .. c] is that div
IsSingleDivBlock(t, s, d, c, e) ==
    /\ 1 <= s /\ s + 1 < d /\ d < c /\ c < e /\ e <= Len(t)
    /\ t[s] = BT /\ t[s + 1] = SQLTAG /\ t[e] = BT
    /\ t[d] = DIV_TA /\ t[c] = DIV_CLOSE
    /\ \A k \in (s + 2)..(d - 1) : IsSpace(t[k])
    /\ \A k \in (c + 1)..(e - 1) : IsSpace(t[k])
    /\ \A k \in (d + 1)..(c - 1) : t[k] \notin {BT, DIV_TA, DIV_PLAIN, DIV_CLOSE}

RECURSIVE UnwrapSingleDivBlocks(_, _)
\* t from position pos on with every single-div block replaced by its div and
\* everything else kept
UnwrapSingleDivBlocks(t, pos) ==
    IF pos > Len(t) THEN <<>>
    ELSE IF \E d, c, e \in pos..Len(t) : IsSingleDivBlock(t, pos, d, c, e)
         THEN LET b == CHOOSE b \in (pos..Len(t)) \X (pos..Len(t)) \X (pos..Len(t)) :
                           IsSingleDivBlock(t, pos, b[1], b[2], b[3])
              IN  SubSeq(t, b[1], b[2]) \o UnwrapSingleDivBlocks(t, b[3] + 1)
         ELSE <<t[pos]>> \o UnwrapSingleDivBlocks(t, pos + 1)

\* C8: the div-in-code remover turns every fenced sql block whose only
\* content is a single div with a text-align style into that div, fence
\* markers removed, and leaves everything else, so every fenced sql block
\* holding anything other than such a div, unchanged.
C8_OnlySingleDivBlocksUnwrapped ==
    pc = "ret" => text = UnwrapSingleDivBlocks(orig, 1)

----------------------------------------------------------------------------
(* SpecRun: main and normalize_file of either script over the lesson
   directory, a step per file operation.  A file operation can fail: a read
   raises; a write raises before the file is opened, or after it was
   truncated and a part of the text was written.  An unhandled error ends the
   invocation.  A script may be invoked again after an invocation that
   completed. *)

NoFile == [exists |-> FALSE, data |-> <<>>]
FileOf(t) == [exists |-> TRUE, data |-> t]

\* the directory listings glob may return: the .md files in any order
Listings == { l \in [1..NFiles -> Files] : \A a, b \in 1..NFiles : a # b => l[a] # l[b] }

RECURSIVE Insert(_, _)
Insert(x, sq) ==
    IF sq = <<>> THEN <<x>>
    ELSE IF x <= Head(sq) THEN <<x>> \o sq
    ELSE <<Head(sq)>> \o Insert(x, Tail(sq))

RECURSIVE Sorted(_)
\* sorted(lessons.glob("*.md"))
Sorted(l) == IF l = <<>> THEN <<>> ELSE Insert(Head(l), Sorted(Tail(l)))

\* the text normalize_file computes from the text read
Produced(sc, t) == IF sc = "fix" THEN FixText(t) ELSE BoldText(t)

\* NeedsWrite with the test left out
AlwaysWrite(sc, t, o, ch) == TRUE

\* the test that guards the two writes: text != orig, or changed
NeedsWrite(sc, t, o, ch) == IF sc = "fix" THEN t # o ELSE ch

\* the texts a write of t that failed can leave in a file that held old
FailedWrite(old, t) == {old} \cup { FileOf(SubSeq(t, 1, k)) : k \in 0..(Len(t) - 1) }

Op(op, f, ok) == [op |-> op, file |-> f, ok |-> ok]

RunInit ==
    /\ script \in {"fix", "bold"}
    /\ pc = "idle"
    /\ src \in [Files -> IF script = "fix" THEN FixTexts ELSE BoldTexts]
    /\ bak = [f \in Files |-> NoFile]
    /\ queue = <<>> /\ cur = 0
    /\ any_changed = FALSE /\ printed = <<>> /\ io = <<>>
    /\ runs = 0 /\ atStart = src
    /\ lines = <<>> /\ i = 1 /\ out = <<>> /\ in_fence = FALSE
    /\ changed = FALSE /\ text = <<>> /\ orig = <<>>

scanVars == <<lines, i, out, in_fence>>

\* main up to the for loop
Invoke ==
    /\ pc \in {"idle", "exit"}
    /\ runs < MaxRuns
    /\ runs' = runs + 1
    /\ \E l \in Listings : queue' = Sorted(l)
    /\ cur' = 0
    /\ any_changed' = FALSE
    /\ printed' = <<>>
    /\ io' = <<>>
    /\ atStart' = src
    /\ pc' = "loop"
    /\ UNCHANGED <<script, scanVars, changed, text, orig, src, bak>>

\* the for loop takes the next file and prints its name
NextFile ==
    /\ pc = "loop" /\ queue # <<>>
    /\ cur' = Head(queue)
    /\ queue' = Tail(queue)
    /\ printed' = Append(printed, <<"Processing:", Head(queue)>>)
    /\ pc' = "read"
    /\ UNCHANGED <<script, scanVars, changed, text, orig, src, bak,
                   any_changed, io, runs, atStart>>

\* path.read_text, and the transform of the text read
ReadText ==
    /\ pc = "read"
    /\ orig' = src[cur]
    /\ text' = Produced(script, src[cur])
    /\ changed' = (script = "bold" /\ BoldChanged(src[cur]))
    /\ io' = Append(io, Op("read", cur, TRUE))
    /\ pc' = "loaded"
    /\ UNCHANGED <<script, scanVars, src, bak, queue, cur, any_changed,
                   printed, runs, atStart>>

\* ReadFails with the error swallowed and the loop going on
ReadFailsSkipped ==
    /\ pc = "read"
    /\ io' = Append(io, Op("read", cur, FALSE))
    /\ pc' = "loop"
    /\ UNCHANGED <<script, scanVars, changed, text, orig, src, bak, queue, cur,
                   any_changed, printed, runs, atStart>>

\* path.read_text raises
ReadFails ==
    /\ pc = "read"
    /\ io' = Append(io, Op("read", cur, FALSE))
    /\ pc' = "crashed"
    /\ UNCHANGED <<script, scanVars, changed, text, orig, src, bak, queue, cur,
                   any_changed, printed, runs, atStart>>

\* nothing to write: normalize_file returns False
ReturnUnchanged ==
    /\ pc = "loaded"
    /\ ~NeedsWrite(script, text, orig, changed)
    /\ pc' = "loop"
    /\ UNCHANGED <<script, scanVars, changed, text, orig, fsVars>>

\* WriteBackup with the new text written to the backup
WriteBackupOfNewText ==
    /\ pc = "loaded"
    /\ NeedsWrite(script, text, orig, changed)
    /\ bak' = [bak EXCEPT ![cur] = FileOf(text)]
    /\ io' = Append(io, Op("write_bak", cur, TRUE))
    /\ pc' = "overwrite"
    /\ UNCHANGED <<script, scanVars, changed, text, orig, src, queue, cur,
                   any_changed, printed, runs, atStart>>

\* bak.write_text(orig) / bak.write_text(text): the text read goes to the backup
WriteBackup ==
    /\ pc = "loaded"
    /\ NeedsWrite(script, text, orig, changed)
    /\ bak' = [bak EXCEPT ![cur] = FileOf(orig)]
    /\ io' = Append(io, Op("write_bak", cur, TRUE))
    /\ pc' = "overwrite"
    /\ UNCHANGED <<script, scanVars, changed, text, orig, src, queue, cur,
                   any_changed, printed, runs, atStart>>

WriteBackupFails ==
    /\ pc = "loaded"
    /\ NeedsWrite(script, text, orig, changed)
    /\ \E b \in FailedWrite(bak[cur], orig) : bak' = [bak EXCEPT ![cur] = b]
    /\ io' = Append(io, Op("write_bak", cur, FALSE))
    /\ pc' = "crashed"
    /\ UNCHANGED <<script, scanVars, changed, text, orig, src, queue, cur,
                   any_changed, printed, runs, atStart>>

\* path.write_text of the new text; normalize_file returns True and main
\* prints the file as fixed / normalized
WriteSource ==
    /\ pc = "overwrite"
    /\ src' = [src EXCEPT ![cur] = text]
    /\ io' = Append(io, Op("write_src", cur, TRUE))
    /\ printed' = Append(printed,
                         <<IF script = "fix" THEN "  -> fixed" ELSE "  -> normalized", cur>>)
    /\ any_changed' = TRUE
    /\ pc' = "loop"
    /\ UNCHANGED <<script, scanVars, changed, text, orig, bak, queue, cur,
                   runs, atStart>>

WriteSourceFails ==
    /\ pc = "overwrite"
    /\ \E c \in FailedWrite(FileOf(src[cur]), text) : src' = [src EXCEPT ![cur] = c.data]
    /\ io' = Append(io, Op("write_src", cur, FALSE))
    /\ pc' = "crashed"
    /\ UNCHANGED <<script, scanVars, changed, text, orig, bak, queue, cur,
                   any_changed, printed, runs, atStart>>

\* after the loop
Finish ==
    /\ pc = "loop" /\ queue = <<>>
    /\ printed' = IF any_changed THEN printed ELSE Append(printed, <<"No changes made.">>)
    /\ pc' = "exit"
    /\ UNCHANGED <<script, scanVars, changed, text, orig, src, bak, queue, cur,
                   any_changed, io, runs, atStart>>

RunNext ==
    \/ Invoke \/ NextFile \/ ReadText \/ ReadFails \/ ReturnUnchanged
    \/ WriteBackup \/ WriteBackupFails \/ WriteSource \/ WriteSourceFails
    \/ Finish

SpecRun == RunInit /\ [][RunNext]_vars

----------------------------------------------------------------------------
(* Claims about a run over the directory *)

\* the text a file holds after normalize_file has returned, from the text it
\* held before
AfterRun(sc, t) ==
    IF NeedsWrite(sc, Produced(sc, t), t, sc = "bold" /\ BoldChanged(t))
    THEN Produced(sc, t)
    ELSE t

\* the write operations, done or failed, of this invocation on file f
WritesOf(f) ==
    { k \in 1..Len(io) : io[k].file = f /\ io[k].op \in {"write_bak", "write_src"} }

\* normalize_file has returned for file f in this invocation
Returned(f) ==
    /\ runs >= 1
    /\ \A k \in 1..Len(queue) : queue[k] # f
    /\ (f < cur \/ (f = cur /\ pc \in {"loop", "exit"}))

\* C1: an invocation of the div/blockquote script that follows a completed
\* one finds every file as that one left it, so it writes no backup and no
\* source file, prints no file as fixed and ends with "No changes made.".
C1_FixSecondRunChangesNothing ==
    (script = "fix" /\ runs >= 2) =>
        /\ \A f \in Files : WritesOf(f) = {} /\ src[f] = atStart[f]
        /\ \A k \in 1..Len(printed) : printed[k][1] # "  -> fixed"
        /\ pc = "exit" => printed[Len(printed)] = <<"No changes made.">>

\* C2: in an invocation of the bold-SQL script that follows a completed one,
\* normalize_file performs no conversion on any file (changed is False) and
\* writes neither the file nor its backup.
C2_BoldSecondRunConvertsNothing ==
    (script = "bold" /\ runs >= 2) =>
        /\ pc = "loaded" => ~changed
        /\ \A f \in Files : WritesOf(f) = {} /\ src[f] = atStart[f]

\* C7: for either script, a file whose produced text equals the text read is
\* not written and gets no backup write; and once normalize_file has returned
\* for a file whose backup it wrote, it has also overwritten the file, with a
\* text that differs from the one read.
C7_NoBackupWithoutChange ==
    \A f \in Files :
        /\ Produced(script, atStart[f]) = atStart[f] =>
               WritesOf(f) = {} /\ src[f] = atStart[f]
        /\ (Returned(f) /\ \E k \in 1..Len(io) : io[k] = Op("write_bak", f, TRUE)) =>
               /\ \E k \in 1..Len(io) : io[k] = Op("write_src", f, TRUE)
               /\ src[f] # atStart[f]
               /\ src[f] = Produced(script, atStart[f])

\* a completed invocation that left one file alone, without a backup, and
\* rewrote another
C7_Witness ==
    /\ pc = "exit"
    /\ \E f, g \in Files :
        /\ Produced(script, atStart[f]) = atStart[f] /\ ~bak[f].exists
        /\ bak[g].exists /\ src[g] # atStart[g]

\* C9: at every point of an invocation, failed writes included, the text
\* each file had when the invocation started is whole in the file or in its
\* backup; and a write of a source file comes after the completed write of
\* its backup.
C9_BackupBeforeOverwrite ==
    /\ \A f \in Files : src[f] = atStart[f] \/ bak[f] = FileOf(atStart[f])
    /\ \A k \in 1..Len(io) :
        io[k].op = "write_src" =>
            \E m \in 1..(k - 1) : io[m] = Op("write_bak", io[k].file, TRUE)

\* the write of a source file failed part way: only the backup holds the text
C9_Witness ==
    /\ pc = "crashed"
    /\ cur \in Files
    /\ src[cur] # atStart[cur]
    /\ src[cur] # text

\* C10: the files are taken one at a time in ascending name order, each
\* operation once; a failed operation is the last one of the invocation;
\* files later in the order than the current one are unread and unmodified,
\* and the files normalize_file has returned for hold their rewritten text.
C10_SequentialStopAtError ==
    /\ SelectSeq(printed, LAMBDA e : e[1] = "Processing:")
           = [k \in 1..cur |-> <<"Processing:", k>>]
    /\ \A k, m \in 1..Len(io) :
        k < m => /\ io[k].file <= io[m].file
                 /\ ~(io[k].file = io[m].file /\ io[k].op = io[m].op)
    /\ \A k \in 1..Len(io) : ~io[k].ok => (k = Len(io) /\ pc = "crashed")
    /\ pc = "crashed" => (io # <<>> /\ ~io[Len(io)].ok)
    /\ \A f \in Files :
        /\ f > cur => (src[f] = atStart[f] /\ \A k \in 1..Len(io) : io[k].file # f)
        /\ Returned(f) => src[f] = AfterRun(script, atStart[f])

\* an invocation that rewrote the first file, stopped at the second and left
\* the third
C10_Witness ==
    /\ pc = "crashed"
    /\ cur > 1 /\ cur < NFiles
    /\ src[1] # atStart[1]

============================================================================
